---- MODULE Spec2Model ----
(***************************************************************************)
(* Semantic retrieval subsystem of videoS: the chunker                     *)
(* (transcriber.py), the embedding client (embedding.py) and the vector   *)
(* index with its persistence and search (indexer.py).                    *)
(*                                                                         *)
(* Floating-point numbers are fixed-point integers: a time is a whole      *)
(* number of seconds, a unit vector has Euclidean length Unit, a score is  *)
(* an inner product of two such vectors (so 1.0 is Unit * Unit).           *)
(***************************************************************************)
EXTENDS Integers, Sequences, FiniteSets, TLC

(***************************************************************************)
(* Bounds of the model.                                                    *)
(***************************************************************************)
MaxEntries == 3
MaxTopK == 2
MaxSegs == 2
MaxTime == 2
MaxRetriesArg == 3

(***************************************************************************)
(* Vectors.                                                                *)
(***************************************************************************)
\* VideoIndexer.dimension (1024 in the source, 2 here)
D == 2

\* the length of a normalised vector (1.0) in fixed point
Unit == 5

Min(a, b) == IF a < b THEN a ELSE b

RECURSIVE SumSeq(_)
SumSeq(s) == IF s = <<>> THEN 0 ELSE Head(s) + SumSeq(Tail(s))

Dot(u, v) == SumSeq([i \in 1..Min(Len(u), Len(v)) |-> u[i] * v[i]])

\* Euclidean norm, as the integer square root of the sum of squares
Norm(v) ==
    LET s == Dot(v, v)
    IN CHOOSE n \in 0..s : n * n <= s /\ s < (n + 1) * (n + 1)

\* np.zeros(self.dimension)
Zeros(d) == [i \in 1..d |-> 0]

\* faiss.normalize_L2 on one row: a row of norm 0 is left as it is
NormalizeRow(v) ==
    LET n == Norm(v)
    IN IF n = 0 THEN v ELSE [i \in 1..Len(v) |-> (v[i] * Unit) \div n]

\* faiss.normalize_L2 on an array of rows
NormalizeL2(rows) == [i \in 1..Len(rows) |-> NormalizeRow(rows[i])]

(***************************************************************************)
(* The remote embedding provider: the embedding it computes for a text,   *)
(* and the ways one request can end.                                       *)
(***************************************************************************)
ChunkTexts == {"intro to gradient descent", "baking sourdough bread"}
QueryTexts == {"what is gradient descent", "bread"}

RemoteEmbedding(text) ==
    CASE text = "intro to gradient descent" -> <<6, 8>>
      [] text = "baking sourdough bread" -> <<4, -3>>
      [] text = "what is gradient descent" -> <<8, 6>>
      [] OTHER -> <<0, -5>>

\* a request ends with a 200 response carrying the embedding, a 200 response
\* carrying an embedding of another dimension, a 200 response carrying an
\* empty embedding, a 200 response without the 'data' field, a non-200
\* status, a timeout or a transport error
Outcomes == {"ok", "ok_baddim", "ok_empty", "malformed", "status", "timeout", "error"}

\* result['data'][0]['embedding'] of a 200 response
ResponseEmbedding(outcome, text) ==
    CASE outcome = "ok" -> RemoteEmbedding(text)
      [] outcome = "ok_baddim" -> SubSeq(RemoteEmbedding(text), 1, D - 1)
      [] OTHER -> <<>>

\* Python values None and list
None == [none |-> TRUE, value |-> <<>>]
Some(v) == [none |-> FALSE, value |-> v]
\* the truth value Python gives to None or a list
Truthy(r) == ~r.none /\ Len(r.value) > 0

(***************************************************************************)
(* State.                                                                  *)
(***************************************************************************)
\* the coroutines that can run on the event loop
Tasks == {"t1", "t2"}

VARIABLES
    index,          \* VideoIndexer.index: the stored vectors, in order (ntotal = Len(index))
    metadata,       \* VideoIndexer.metadata
    diskIndex,      \* the file index_file (named *.faiss, as the default is)
    diskMeta,       \* the file metadata_file (so another file than index_file)
    status,         \* "ready" once __init__ has returned, "down" when the process has stopped
    pc,             \* where each coroutine stands
    args,           \* the arguments and locals of the call each coroutine runs
    emb,            \* the call of emb each coroutine awaits
    ret,            \* what the finished call of each coroutine returned or raised
    op,             \* the step taken last
    segments,       \* split_into_chunks: the segments of the transcription result
    chunk_duration, \* split_into_chunks: its argument
    seg_i,          \* split_into_chunks: how many segments the loop has consumed
    current_chunk,  \* split_into_chunks: its local
    chunks,         \* split_into_chunks: its local, returned at the end
    cpc             \* split_into_chunks: "loop", "flush" or "done"

indexVars == <<index, metadata, diskIndex, diskMeta, status>>
taskVars == <<pc, args, emb, ret>>
chunkVars == <<segments, chunk_duration, seg_i, current_chunk, chunks, cpc>>
vars == <<index, metadata, diskIndex, diskMeta, status, pc, args, emb, ret, op,
          segments, chunk_duration, seg_i, current_chunk, chunks, cpc>>

(***************************************************************************)
(* embedding.py: emb                                                       *)
(***************************************************************************)
\* max_retries=3 in the signature of emb
DefaultMaxRetries == 3

NoEmb == [state |-> "none", input |-> "", max_retries |-> 0, attempt |-> 0,
          requests |-> 0, failures |-> 0, last |-> "none", result |-> None]

\* the call emb(input, max_retries=max_retries), entered
EmbCall(input, max_retries) ==
    [state |-> "running", input |-> input, max_retries |-> max_retries, attempt |-> 0,
     requests |-> 0, failures |-> 0, last |-> "none", result |-> None]

\* the attempts that end in `continue`: a non-200 status, a timeout, any
\* other exception (a missing field of a 200 body raises one)
FailedOutcomesButMalformed == {"status", "timeout", "error"}
FailedOutcomes == {"malformed", "status", "timeout", "error"}

\* one iteration of `for attempt in range(max_retries)`: one request and its outcome
EmbLoopGuardOffByOne(e) == e.attempt <= e.max_retries
EmbLoopGuard(e) == e.attempt < e.max_retries

EmbAfterFailure(e, outcome) ==
    [e EXCEPT !.attempt = @ + 1, !.requests = @ + 1, !.failures = @ + 1, !.last = outcome]

EmbAfterSuccess(e, outcome) ==
    [e EXCEPT !.attempt = @ + 1, !.requests = @ + 1, !.state = "returned",
              !.last = outcome,
              !.result = Some(ResponseEmbedding(outcome, e.input))]

EmbRequest(t) ==
    /\ emb[t].state = "running"
    /\ EmbLoopGuard(emb[t])
    /\ \E outcome \in Outcomes :
         emb' = [emb EXCEPT ![t] = IF outcome \in FailedOutcomes
                                   THEN EmbAfterFailure(emb[t], outcome)
                                   ELSE EmbAfterSuccess(emb[t], outcome)]
    /\ op' = "emb_request"
    /\ UNCHANGED <<indexVars, pc, args, ret, chunkVars>>

\* the loop is over: return None
EmbExhaustedResult(e) == None

EmbExhausted(t) ==
    /\ emb[t].state = "running"
    /\ ~EmbLoopGuard(emb[t])
    /\ emb' = [emb EXCEPT ![t] = [@ EXCEPT !.state = "returned", !.result = EmbExhaustedResult(@)]]
    /\ op' = "emb_exhausted"
    /\ UNCHANGED <<indexVars, pc, args, ret, chunkVars>>

(***************************************************************************)
(* indexer.py: VideoIndexer                                                *)
(***************************************************************************)
\* a path is the sequence of its components
VideoPaths == {<<"uploads", "a.mp4">>, <<"archive", "a.mp4">>, <<"b.mp4">>, <<"silent.mp4">>}

\* Path(p).name
PathName(p) == p[Len(p)]

\* the chunks index_video hands to add_chunks for each video
ChunksOf(video_path) ==
    CASE video_path = <<"uploads", "a.mp4">> ->
           << [text |-> "intro to gradient descent", start |-> 0, end |-> 30],
              [text |-> "baking sourdough bread", start |-> 30, end |-> 60] >>
      [] video_path = <<"archive", "a.mp4">> ->
           << [text |-> "intro to gradient descent", start |-> 0, end |-> 30] >>
      [] video_path = <<"b.mp4">> ->
           << [text |-> "baking sourdough bread", start |-> 0, end |-> 30] >>
      [] OTHER -> <<>>

NoFile == [exists |-> FALSE, d |-> 0, ntotal |-> 0, codes |-> <<>>]
NoMetaFile == [exists |-> FALSE, items |-> <<>>]

RECURSIVE Flatten(_)
Flatten(rows) == IF rows = <<>> THEN <<>> ELSE Head(rows) \o Flatten(Tail(rows))

\* faiss.write_index: the dimension, the number of vectors, then the
\* components of all vectors in one flat array
WriteIndexDropLast(xb) ==
    [exists |-> TRUE, d |-> D, ntotal |-> IF Len(xb) = 0 THEN 0 ELSE Len(xb) - 1,
     codes |-> Flatten(SubSeq(xb, 1, Len(xb) - 1))]
WriteIndex(xb) == [exists |-> TRUE, d |-> D, ntotal |-> Len(xb), codes |-> Flatten(xb)]

\* faiss.read_index
ReadIndex(file) ==
    [i \in 1..file.ntotal |-> SubSeq(file.codes, (i - 1) * file.d + 1, i * file.d)]

\* pickle.dump of the metadata list: each dict as its items, in key order
PickleDumpDropLast(meta) ==
    [exists |-> TRUE,
     items |-> [i \in 1..(Len(meta) - 1) |->
                  << <<"video_path", meta[i].video_path>>,
                     <<"start_time", meta[i].start_time>>,
                     <<"end_time", meta[i].end_time>>,
                     <<"text", meta[i].text>>,
                     <<"chunk_index", meta[i].chunk_index>> >>]]
PickleDump(meta) ==
    [exists |-> TRUE,
     items |-> [i \in 1..Len(meta) |->
                  << <<"video_path", meta[i].video_path>>,
                     <<"start_time", meta[i].start_time>>,
                     <<"end_time", meta[i].end_time>>,
                     <<"text", meta[i].text>>,
                     <<"chunk_index", meta[i].chunk_index>> >>]]

\* pickle.load
PickleLoad(file) ==
    [i \in 1..Len(file.items) |->
       [video_path |-> file.items[i][1][2],
        start_time |-> file.items[i][2][2],
        end_time |-> file.items[i][3][2],
        text |-> file.items[i][4][2],
        chunk_index |-> file.items[i][5][2]]]

\* the loop `for i, chunk in enumerate(chunks)` of add_chunks, from its
\* i-th iteration (i counts from 0) on; len(self.metadata) is read anew in
\* every iteration
RECURSIVE AppendMetadata(_, _, _, _)
AppendMetadata(meta, cs, i, video_path) ==
    IF i >= Len(cs) THEN meta
    ELSE AppendMetadata(
           Append(meta, [video_path |-> video_path,
                         start_time |-> cs[i + 1].start,
                         end_time |-> cs[i + 1].end,
                         text |-> cs[i + 1].text,
                         chunk_index |-> Len(meta) + i]),
           cs, i + 1, video_path)

\* np.array(embeddings, dtype=np.float32) raises on rows of unequal length,
\* and index.add raises on rows whose length is not the index's dimension
ArrayRaises(rows, d) == \E i \in 1..Len(rows) : Len(rows[i]) # d

\* `if embedding: embeddings.append(embedding) else: embeddings.append(np.zeros(...))`
EmbeddingOrFallbackSkip(r) == IF Truthy(r) THEN <<r.value>> ELSE <<>>
EmbeddingOrFallbackOnes(r) == IF Truthy(r) THEN <<r.value>> ELSE <<[c \in 1..D |-> 1]>>
EmbeddingOrFallback(r) == IF Truthy(r) THEN <<r.value>> ELSE <<Zeros(D)>>

\* the inner product of the query with every stored vector
Scores(xb, q) == [p \in 1..Len(xb) |-> Dot(xb[p], q)]

\* the k best of the positions ps, best first: each time any position of
\* the largest score left
RECURSIVE BestFirst(_, _, _)
BestFirst(sc, ps, k) ==
    IF k = 0 \/ ps = {} THEN {<<>>}
    ELSE UNION {{<<p>> \o rest : rest \in BestFirst(sc, ps \ {p}, k - 1)} :
                  p \in {b \in ps : \A o \in ps : sc[o] <= sc[b]}}

\* IndexFlatIP.search(query, k): the positions of the k vectors of largest
\* inner product with the query, best first; which of several vectors of
\* equal score comes first, or is left out, is up to faiss
FaissSearchWorstFirst(sc, k) == BestFirst([p \in DOMAIN sc |-> 0 - sc[p]], DOMAIN sc, k)
FaissSearch(sc, k) == BestFirst(sc, DOMAIN sc, k)

\* self.metadata[idx].copy() with result['score'] = float(score)
Scored(entry, score) ==
    [video_path |-> entry.video_path, start_time |-> entry.start_time,
     end_time |-> entry.end_time, text |-> entry.text,
     chunk_index |-> entry.chunk_index, score |-> score]

\* `if video_filename: keep when Path(result['video_path']).name == video_filename
\*  else: keep`
KeepsNoFilter(result, video_filename) == TRUE
Keeps(result, video_filename) ==
    IF video_filename # "" THEN PathName(result.video_path) = video_filename ELSE TRUE

\* the loop over zip(scores[0], indices[0]) of search
RECURSIVE CollectResults(_, _, _, _)
CollectResults(cand, sc, meta, video_filename) ==
    IF cand = <<>> THEN <<>>
    ELSE LET idx == Head(cand)
             rest == CollectResults(Tail(cand), sc, meta, video_filename)
         IN IF idx <= Len(meta) /\ Keeps(Scored(meta[idx], sc[idx]), video_filename)
            THEN <<Scored(meta[idx], sc[idx])>> \o rest
            ELSE rest

\* sorted(results, key=score, reverse=True): stable, so results of equal
\* score keep their order
RECURSIVE InsertByScore(_, _)
InsertByScore(sorted, r) ==
    IF sorted = <<>> THEN <<r>>
    ELSE IF Head(sorted).score >= r.score
         THEN <<Head(sorted)>> \o InsertByScore(Tail(sorted), r)
         ELSE <<r>> \o sorted

RECURSIVE SortedByScore(_)
SortedByScore(results) ==
    IF results = <<>> THEN <<>>
    ELSE InsertByScore(SortedByScore(SubSeq(results, 1, Len(results) - 1)),
                       results[Len(results)])

\* [:top_k]
Truncate(results, top_k) == SubSeq(results, 1, Min(top_k, Len(results)))

\* the number of candidates search asks faiss for
FetchCountAll(top_k, ntotal) == ntotal
FetchCountNoOverfetch(top_k, ntotal) == Min(top_k, ntotal)
FetchCount(top_k, ntotal) == Min(top_k * 2, ntotal)

\* what search returns when faiss answers with the candidates cand, of
\* scores sc
SearchReturn(cand, sc, meta, top_k, video_filename) ==
    Truncate(SortedByScore(CollectResults(cand, sc, meta, video_filename)), top_k)

\* every list search can return on the index (xb, meta) for the query
\* embedding qe, top_k and video_filename
SearchOutcomes(xb, meta, qe, top_k, video_filename) ==
    LET sc == Scores(xb, NormalizeRow(qe))
    IN {SearchReturn(cand, sc, meta, top_k, video_filename) :
          cand \in FaissSearch(sc, FetchCount(top_k, Len(xb)))}

Filenames == {"", "a.mp4", "b.mp4"}

NoArgs == [chunks |-> <<>>, video_path |-> <<>>, i |-> 0, embeddings |-> <<>>,
           query |-> "", top_k |-> 0, video_filename |-> ""]
NoRet == [kind |-> "none", value |-> <<>>]
Returned(v) == [kind |-> "returned", value |-> v]
Raised == [kind |-> "raised", value |-> <<>>]

\* __init__: an empty index, replaced by the persisted one when both files exist
ConstructLoadsEqualCounts ==
    diskIndex.exists /\ diskMeta.exists /\ diskIndex.ntotal = Len(diskMeta.items)
ConstructLoads == diskIndex.exists /\ diskMeta.exists

Construct ==
    /\ \A t \in Tasks : pc[t] = "idle"
    /\ index' = IF ConstructLoads THEN ReadIndex(diskIndex) ELSE <<>>
    /\ metadata' = IF ConstructLoads THEN PickleLoad(diskMeta) ELSE <<>>
    /\ status' = "ready"
    /\ op' = "construct"
    /\ UNCHANGED <<diskIndex, diskMeta, taskVars, chunkVars>>

\* add_chunks, up to its first await
StartAdd(t, cs, video_path) ==
    /\ status = "ready"
    /\ pc[t] = "idle"
    /\ Len(index) + Len(cs) <= MaxEntries
    /\ args' = [args EXCEPT ![t] = [NoArgs EXCEPT !.chunks = cs, !.video_path = video_path]]
    /\ IF cs = <<>>
       THEN \* no text, no embedding: `if not embeddings: return`
            /\ pc' = [pc EXCEPT ![t] = "add_done"]
            /\ ret' = [ret EXCEPT ![t] = Returned(<<>>)]
            /\ emb' = emb
       ELSE /\ pc' = [pc EXCEPT ![t] = "add_await"]
            /\ emb' = [emb EXCEPT ![t] = EmbCall(cs[1].text, DefaultMaxRetries)]
            /\ ret' = ret
    /\ op' = "add_start"
    /\ UNCHANGED <<indexVars, chunkVars>>

\* whether the loop `for text in texts` of add_chunks ends with the
\* embedding call that has just returned: a.i texts were embedded before it
LastTextEmbeddedAlways(a) == TRUE
LastTextEmbedded(a) == a.i + 1 >= Len(a.chunks)

\* the vectors of the index while add_chunks collects embeddings: the
\* embedding goes to the local list `embeddings`, the index is not touched
IndexWhileEmbeddingEager(xb, r) == xb \o NormalizeL2(EmbeddingOrFallback(r))
IndexWhileEmbedding(xb, r) == xb

\* add_chunks between two awaits: the embedding of text i is in, that of
\* text i + 1 is asked for
AddNext(t) ==
    /\ pc[t] = "add_await"
    /\ emb[t].state = "returned"
    /\ ~LastTextEmbedded(args[t])
    /\ args' = [args EXCEPT ![t] = [@ EXCEPT !.i = @ + 1,
                                             !.embeddings = @ \o EmbeddingOrFallback(emb[t].result)]]
    /\ emb' = [emb EXCEPT ![t] = EmbCall(args[t].chunks[args[t].i + 2].text, DefaultMaxRetries)]
    /\ index' = IndexWhileEmbedding(index, emb[t].result)
    /\ op' = "add_next"
    /\ UNCHANGED <<metadata, diskIndex, diskMeta, status, pc, ret, chunkVars>>

\* the in-memory part of add_chunks after its last await: index.add of the
\* normalised array, then the metadata loop
AddedVectorsInFront(xb, embeddings) == NormalizeL2(embeddings) \o xb
AddedVectors(xb, embeddings) == xb \o NormalizeL2(embeddings)
AddedMetadataFirstOnly(meta, cs, video_path) ==
    AppendMetadata(meta, SubSeq(cs, 1, 1), 0, video_path)
AddedMetadata(meta, cs, video_path) == AppendMetadata(meta, cs, 0, video_path)

\* add_chunks from its last await to its end (no await in between)
AddFinish(t) ==
    /\ pc[t] = "add_await"
    /\ emb[t].state = "returned"
    /\ LastTextEmbedded(args[t])
    /\ LET embeddings == args[t].embeddings \o EmbeddingOrFallback(emb[t].result)
       IN /\ args' = [args EXCEPT ![t] = [@ EXCEPT !.i = @ + 1, !.embeddings = embeddings]]
          /\ IF embeddings = <<>>
             THEN /\ ret' = [ret EXCEPT ![t] = Returned(<<>>)]
                  /\ UNCHANGED indexVars
             ELSE IF ArrayRaises(embeddings, D)
             THEN /\ ret' = [ret EXCEPT ![t] = Raised]
                  /\ UNCHANGED indexVars
             ELSE /\ index' = AddedVectors(index, embeddings)
                  /\ metadata' = AddedMetadata(metadata, args[t].chunks, args[t].video_path)
                  \* save_index
                  /\ diskIndex' = WriteIndex(index')
                  /\ diskMeta' = PickleDump(metadata')
                  /\ ret' = [ret EXCEPT ![t] = Returned(<<>>)]
                  /\ status' = status
    /\ pc' = [pc EXCEPT ![t] = "add_done"]
    /\ op' = "add_finish"
    /\ UNCHANGED <<emb, chunkVars>>

\* search, up to its await
StartSearch(t, query, top_k, video_filename) ==
    /\ status = "ready"
    /\ pc[t] = "idle"
    /\ args' = [args EXCEPT ![t] = [NoArgs EXCEPT !.query = query, !.top_k = top_k,
                                                  !.video_filename = video_filename]]
    /\ pc' = [pc EXCEPT ![t] = "search_await"]
    /\ emb' = [emb EXCEPT ![t] = EmbCall(query, DefaultMaxRetries)]
    /\ op' = "search_start"
    /\ UNCHANGED <<indexVars, ret, chunkVars>>

\* the stored entries after the loop of search over the candidates: each
\* result is `self.metadata[idx].copy()`, so the score is written to the
\* copy and the stored entry stays as it was
StoredAfterSearchNoCopy(meta, cand, sc) ==
    [i \in 1..Len(meta) |->
       IF \E c \in 1..Len(cand) : cand[c] = i THEN Scored(meta[i], sc[i]) ELSE meta[i]]
StoredAfterSearch(meta, cand, sc) == meta

\* search from its await to its end
SearchFinish(t) ==
    /\ pc[t] = "search_await"
    /\ emb[t].state = "returned"
    /\ IF ~Truthy(emb[t].result)
       THEN \* `if not query_embedding: return []`
            /\ ret' = [ret EXCEPT ![t] = Returned(<<>>)]
            /\ metadata' = metadata
       ELSE IF Len(emb[t].result.value) # D
       THEN \* index.search raises on a query of another dimension
            /\ ret' = [ret EXCEPT ![t] = Raised]
            /\ metadata' = metadata
       ELSE IF FetchCount(args[t].top_k, Len(index)) = 0
       THEN \* index.search with k = 0 raises or answers nothing, by faiss version
            /\ \E r \in {Raised, Returned(<<>>)} : ret' = [ret EXCEPT ![t] = r]
            /\ metadata' = metadata
       ELSE LET sc == Scores(index, NormalizeRow(emb[t].result.value))
            IN \E cand \in FaissSearch(sc, FetchCount(args[t].top_k, Len(index))) :
                 /\ ret' = [ret EXCEPT ![t] =
                              Returned(SearchReturn(cand, sc, metadata, args[t].top_k,
                                                    args[t].video_filename))]
                 /\ metadata' = StoredAfterSearch(metadata, cand, sc)
    /\ pc' = [pc EXCEPT ![t] = "search_done"]
    /\ op' = "search_finish"
    /\ UNCHANGED <<index, diskIndex, diskMeta, status, args, emb, chunkVars>>

\* the caller has its result; the coroutine is gone
Finished(t) ==
    /\ pc[t] \in {"add_done", "search_done"}
    /\ pc' = [pc EXCEPT ![t] = "idle"]
    /\ args' = [args EXCEPT ![t] = NoArgs]
    /\ emb' = [emb EXCEPT ![t] = NoEmb]
    /\ ret' = [ret EXCEPT ![t] = NoRet]
    /\ op' = "finished"
    /\ UNCHANGED <<indexVars, chunkVars>>

(***************************************************************************)
(* The process stops inside save_index, between faiss.write_index and the  *)
(* write of the metadata file: the vector file is new, the metadata file   *)
(* is as it was, and what was in memory is gone.                           *)
(***************************************************************************)
AddFinishStopped(t) ==
    /\ pc[t] = "add_await"
    /\ emb[t].state = "returned"
    /\ LastTextEmbedded(args[t])
    /\ LET embeddings == args[t].embeddings \o EmbeddingOrFallback(emb[t].result)
       IN /\ embeddings # <<>>
          /\ ~ArrayRaises(embeddings, D)
          /\ diskIndex' = WriteIndex(AddedVectors(index, embeddings))
    /\ diskMeta' = diskMeta
    /\ index' = <<>>
    /\ metadata' = <<>>
    /\ status' = "down"
    /\ pc' = [u \in Tasks |-> "idle"]
    /\ args' = [u \in Tasks |-> NoArgs]
    /\ emb' = [u \in Tasks |-> NoEmb]
    /\ ret' = [u \in Tasks |-> NoRet]
    /\ op' = "stopped_in_save"
    /\ UNCHANGED chunkVars

(***************************************************************************)
(* save_index fails after the in-memory append: faiss.write_index raises   *)
(* and leaves both files as they were, or the vector file is written and   *)
(* opening the metadata file raises. The exception leaves add_chunks; the  *)
(* process goes on with what it has in memory.                             *)
(***************************************************************************)
SaveSteps == {"write_index", "open"}

AddFinishSaveFails(t) ==
    /\ pc[t] = "add_await"
    /\ emb[t].state = "returned"
    /\ LastTextEmbedded(args[t])
    /\ LET embeddings == args[t].embeddings \o EmbeddingOrFallback(emb[t].result)
       IN /\ embeddings # <<>>
          /\ ~ArrayRaises(embeddings, D)
          /\ args' = [args EXCEPT ![t] = [@ EXCEPT !.i = @ + 1, !.embeddings = embeddings]]
          /\ index' = AddedVectors(index, embeddings)
          /\ metadata' = AddedMetadata(metadata, args[t].chunks, args[t].video_path)
          /\ \E failing \in SaveSteps :
               diskIndex' = IF failing = "write_index" THEN diskIndex ELSE WriteIndex(index')
    /\ diskMeta' = diskMeta
    /\ ret' = [ret EXCEPT ![t] = Raised]
    /\ pc' = [pc EXCEPT ![t] = "add_done"]
    /\ op' = "save_failed"
    /\ UNCHANGED <<status, emb, chunkVars>>

(***************************************************************************)
(* transcriber.py: split_into_chunks                                       *)
(***************************************************************************)
\* a text is the sequence of its words and separators
EmptyChunk == [start |-> 0, end |-> 0, text |-> <<>>, segments |-> <<>>]

\* `if current_chunk['end'] - current_chunk['start'] >= chunk_duration`
ChunkIsFullLookahead(c, segment, d) == segment.end - c.start >= d
ChunkIsFull(c, segment, d) == c.end - c.start >= d

\* the new chunk, seeded with the segment
SeedChunk(segment) ==
    [start |-> segment.start, end |-> segment.end, text |-> segment.text,
     segments |-> <<segment>>]

\* the current chunk, extended by the segment
ExtendChunk(c, segment) ==
    [c EXCEPT !.end = segment.end,
              !.text = @ \o <<" ">> \o segment.text,
              !.segments = Append(@, segment)]

\* one iteration of `for segment in segments`
ChunkStep ==
    /\ cpc = "loop"
    /\ seg_i < Len(segments)
    /\ LET segment == segments[seg_i + 1]
       IN IF ChunkIsFull(current_chunk, segment, chunk_duration)
          THEN /\ chunks' = Append(chunks, current_chunk)
               /\ current_chunk' = SeedChunk(segment)
          ELSE /\ chunks' = chunks
               /\ current_chunk' = ExtendChunk(current_chunk, segment)
    /\ seg_i' = seg_i + 1
    /\ op' = "chunk_step"
    /\ UNCHANGED <<indexVars, taskVars, segments, chunk_duration, cpc>>

\* after the loop: `if current_chunk['text']: chunks.append(current_chunk)`
ChunkFlush ==
    /\ cpc = "loop"
    /\ seg_i = Len(segments)
    /\ chunks' = IF current_chunk.text # <<>> THEN Append(chunks, current_chunk) ELSE chunks
    /\ cpc' = "done"
    /\ op' = "chunk_flush"
    /\ UNCHANGED <<indexVars, taskVars, segments, chunk_duration, seg_i, current_chunk>>

\* not running
ChunkerIdle ==
    /\ segments = <<>>
    /\ chunk_duration = 0
    /\ seg_i = 0
    /\ current_chunk = EmptyChunk
    /\ chunks = <<>>
    /\ cpc = "done"

(***************************************************************************)
(* One caller at a time on a freshly constructed indexer.                  *)
(***************************************************************************)
Caller == "t1"

TasksIdle ==
    /\ pc = [t \in Tasks |-> "idle"]
    /\ args = [t \in Tasks |-> NoArgs]
    /\ emb = [t \in Tasks |-> NoEmb]
    /\ ret = [t \in Tasks |-> NoRet]

Init ==
    /\ index = <<>>
    /\ metadata = <<>>
    /\ diskIndex = NoFile
    /\ diskMeta = NoMetaFile
    /\ status = "ready"
    /\ TasksIdle
    /\ op = "construct"
    /\ ChunkerIdle

Next ==
    \/ \E p \in VideoPaths : StartAdd(Caller, ChunksOf(p), p)
    \/ AddNext(Caller)
    \/ AddFinish(Caller)
    \/ \E q \in QueryTexts, k \in 1..MaxTopK, f \in Filenames : StartSearch(Caller, q, k, f)
    \/ SearchFinish(Caller)
    \/ EmbRequest(Caller)
    \/ EmbExhausted(Caller)
    \/ Finished(Caller)
    \/ Construct

Spec == Init /\ [][Next]_vars

(***************************************************************************)
(* The same, with a process that can stop inside save_index and be         *)
(* started again.                                                          *)
(***************************************************************************)
NextStop ==
    \/ Next
    \/ AddFinishStopped(Caller)

SpecStop == Init /\ [][NextStop]_vars

(***************************************************************************)
(* Additions and restarts only, with a save_index that can fail and a      *)
(* process that can stop inside it.                                        *)
(***************************************************************************)
NextFail ==
    \/ \E p \in VideoPaths : StartAdd(Caller, ChunksOf(p), p)
    \/ AddNext(Caller)
    \/ AddFinish(Caller)
    \/ EmbRequest(Caller)
    \/ EmbExhausted(Caller)
    \/ Finished(Caller)
    \/ Construct
    \/ AddFinishStopped(Caller)
    \/ AddFinishSaveFails(Caller)

SpecFail == Init /\ [][NextFail]_vars

(***************************************************************************)
(* Two coroutines on one event loop and one indexer: every action runs     *)
(* from one await to the next, and the loop may resume either coroutine.   *)
(* A call of emb is one step here: between its awaits emb reads and writes *)
(* nothing of the indexer, so its requests commute with the steps of the   *)
(* other coroutine.                                                        *)
(***************************************************************************)
\* the states in which the call e of emb can return
RECURSIVE EmbFinals(_)
EmbFinals(e) ==
    IF EmbLoopGuard(e)
    THEN {EmbAfterSuccess(e, o) : o \in Outcomes \ FailedOutcomes}
         \cup UNION {EmbFinals(EmbAfterFailure(e, o)) : o \in FailedOutcomes}
    ELSE {[e EXCEPT !.state = "returned", !.result = EmbExhaustedResult(e)]}

\* what the caller has of a call that returned: its result
EmbResultOnly(e) ==
    [NoEmb EXCEPT !.state = "returned", !.input = e.input,
                  !.max_retries = e.max_retries, !.result = e.result]

EmbCompletes(t) ==
    /\ emb[t].state = "running"
    /\ \E e \in EmbFinals(emb[t]) : emb' = [emb EXCEPT ![t] = EmbResultOnly(e)]
    /\ op' = "emb_completes"
    /\ UNCHANGED <<indexVars, pc, args, ret, chunkVars>>

\* the chunks of the add_chunks calls under way
PendingChunks ==
    LET n(t) == IF pc[t] = "add_await" THEN Len(args[t].chunks) ELSE 0
    IN n("t1") + n("t2")

NextConc ==
    \E t \in Tasks :
      \/ \E p \in VideoPaths :
           /\ Len(index) + PendingChunks + Len(ChunksOf(p)) <= MaxEntries
           /\ StartAdd(t, ChunksOf(p), p)
      \/ AddNext(t)
      \/ AddFinish(t)
      \/ \E q \in QueryTexts : t # Caller /\ StartSearch(t, q, MaxTopK, "")
      \/ SearchFinish(t)
      \/ EmbCompletes(t)
      \/ Finished(t)

SpecConc == Init /\ [][NextConc]_vars

(***************************************************************************)
(* One call of emb, for any max_retries.                                   *)
(***************************************************************************)
InitEmb ==
    /\ index = <<>>
    /\ metadata = <<>>
    /\ diskIndex = NoFile
    /\ diskMeta = NoMetaFile
    /\ status = "ready"
    /\ pc = [t \in Tasks |-> IF t = Caller THEN "emb_only" ELSE "idle"]
    /\ args = [t \in Tasks |-> NoArgs]
    /\ \E text \in ChunkTexts \cup QueryTexts, m \in 0..MaxRetriesArg :
         emb = [t \in Tasks |-> IF t = Caller THEN EmbCall(text, m) ELSE NoEmb]
    /\ ret = [t \in Tasks |-> NoRet]
    /\ op = "emb_call"
    /\ ChunkerIdle

NextEmb ==
    \/ EmbRequest(Caller)
    \/ EmbExhausted(Caller)

\* the event loop runs the coroutine, and every request ends (it has a timeout)
SpecEmb == InitEmb /\ [][NextEmb]_vars /\ WF_vars(NextEmb)

(***************************************************************************)
(* One call of split_into_chunks, for any segment list and chunk_duration. *)
(***************************************************************************)
SegmentTexts == {<<>>, <<"w">>}

Segments ==
    {[start |-> a, end |-> b, text |-> x] :
       a \in 0..MaxTime, b \in 0..MaxTime, x \in SegmentTexts}

SegmentLists == UNION {[1..n -> Segments] : n \in 0..MaxSegs}

Durations == -1..MaxTime

InitChunk ==
    /\ index = <<>>
    /\ metadata = <<>>
    /\ diskIndex = NoFile
    /\ diskMeta = NoMetaFile
    /\ status = "ready"
    /\ TasksIdle
    /\ op = "split_into_chunks"
    /\ segments \in SegmentLists
    /\ chunk_duration \in Durations
    /\ seg_i = 0
    /\ current_chunk = EmptyChunk
    /\ chunks = <<>>
    /\ cpc = "loop"

NextChunk ==
    \/ ChunkStep
    \/ ChunkFlush

SpecChunk == InitChunk /\ [][NextChunk]_vars

(***************************************************************************)
(* Properties of the index.                                                *)
(***************************************************************************)
\* the vector add_chunks stores for a chunk: its normalised embedding, or
\* the fallback when emb gave none
VectorsFor(text) == {NormalizeRow(RemoteEmbedding(text)), NormalizeRow(Zeros(D))}

\* C1: index alignment. After any sequence of completed add_chunks calls
\* the index holds as many vectors as metadata entries, and the vector at
\* position i is the one computed for the chunk recorded in metadata[i].
IndexAlignment ==
    /\ Len(index) = Len(metadata)
    /\ \A i \in 1..Len(index) :
         i <= Len(metadata) => index[i] \in VectorsFor(metadata[i].text)

IndexAlignmentWitness ==
    /\ op = "add_finish"
    /\ Len(index) = MaxEntries
    /\ \E i, j \in 1..Len(index) :
         /\ index[i] = Zeros(D)
         /\ index[j] # Zeros(D)
         /\ metadata[i].text # metadata[j].text

\* C2: normalisation. Every vector stored in the index has L2 norm 1,
\* whatever the embedding calls of add_chunks returned.
AllUnitNorm == \A i \in 1..Len(index) : Norm(index[i]) = Unit

\* the query vector search works with, once emb has returned one of the
\* index's dimension
HasQueryVector(t) == Truthy(emb[t].result) /\ Len(emb[t].result.value) = D

\* C3: filter correctness. A search with top_k >= 1 and a non-empty
\* video_filename V returns at most top_k results, each of a video whose
\* base filename is V.
FilterCorrect ==
    \A t \in Tasks :
      (pc[t] = "search_done" /\ ret[t].kind = "returned"
         /\ args[t].top_k >= 1 /\ args[t].video_filename # "")
      => /\ Len(ret[t].value) <= args[t].top_k
         /\ \A i \in 1..Len(ret[t].value) :
              PathName(ret[t].value[i].video_path) = args[t].video_filename

FilterCorrectWitness ==
    /\ pc[Caller] = "search_done"
    /\ args[Caller].video_filename = "a.mp4"
    /\ \E i \in 1..Len(ret[Caller].value) : ret[Caller].value[i].video_path = <<"archive", "a.mp4">>
    /\ \E i \in 1..Len(metadata) : metadata[i].video_path = <<"b.mp4">>
    /\ Len(index) > args[Caller].top_k

\* C4: unfiltered ranking. A search without a video filter that has its
\* query vector returns exactly min(top_k, index size) results; they are
\* entries of the index at distinct positions, with their scores, no entry
\* left out scores strictly higher than a returned one, and they are
\* listed in non-increasing score order.
UnfilteredRanking ==
    \A t \in Tasks :
      (pc[t] = "search_done" /\ ret[t].kind = "returned"
         /\ args[t].top_k >= 1 /\ args[t].video_filename = "" /\ HasQueryVector(t))
      => LET res == ret[t].value
             sc == Scores(index, NormalizeRow(emb[t].result.value))
         IN /\ Len(res) = Min(args[t].top_k, Len(index))
            /\ \A i, j \in 1..Len(res) : i < j => res[i].score >= res[j].score
            /\ \E f \in [1..Len(res) -> 1..Len(index)] :
                 /\ \A i, j \in 1..Len(res) : i # j => f[i] # f[j]
                 /\ \A i \in 1..Len(res) : res[i] = Scored(metadata[f[i]], sc[f[i]])
                 /\ \A p \in 1..Len(index) :
                      (\A i \in 1..Len(res) : f[i] # p)
                      => \A i \in 1..Len(res) : sc[p] <= res[i].score

UnfilteredRankingWitness ==
    /\ pc[Caller] = "search_done"
    /\ args[Caller].video_filename = ""
    /\ HasQueryVector(Caller)
    /\ Len(index) > 2 * args[Caller].top_k
    /\ Len(ret[Caller].value) = args[Caller].top_k
    /\ \E p \in 1..Len(index) :
         Dot(index[p], NormalizeRow(emb[Caller].result.value)) < ret[Caller].value[1].score

MissingArtifactDetected ==
    (op = "construct" /\ diskIndex.exists # diskMeta.exists) => status # "ready"

\* C9: mismatched-length detection. When the vector file and the metadata
\* file hold different numbers of entries, loading fails and no search is
\* served on the index.
MismatchedLengthsDetected ==
    (diskIndex.exists /\ diskMeta.exists /\ diskIndex.ntotal # Len(diskMeta.items))
    => /\ (op = "construct" => status # "ready")
       /\ \A t \in Tasks : pc[t] # "search_done"

\* whether the sequence s begins with the sequence r
IsPrefix(r, s) == Len(r) <= Len(s) /\ SubSeq(s, 1, Len(r)) = r

\* a step in which the add_chunks call of task t runs from its last await
\* to its end
AddCompletes(t) == pc[t] = "add_await" /\ pc'[t] = "add_done"

\* C13: append-only, order-preserving insertion. No step changes, reorders
\* or removes an entry or a vector already stored, and an add_chunks call
\* that returns normally leaves the metadata as it was followed by one
\* entry per chunk, in the order of the chunks, with the chunk's start,
\* end and text and the call's video_path; the vectors grow in step.
AppendOnlyInOrder ==
    [][/\ IsPrefix(metadata, metadata')
       /\ IsPrefix(index, index')
       /\ \A t \in Tasks :
            (AddCompletes(t) /\ ret'[t].kind = "returned")
            => LET cs == args[t].chunks
               IN /\ Len(metadata') = Len(metadata) + Len(cs)
                  /\ Len(index') = Len(index) + Len(cs)
                  /\ \A j \in 1..Len(cs) :
                       /\ metadata'[Len(metadata) + j].start_time = cs[j].start
                       /\ metadata'[Len(metadata) + j].end_time = cs[j].end
                       /\ metadata'[Len(metadata) + j].text = cs[j].text
                       /\ metadata'[Len(metadata) + j].video_path = args[t].video_path
                       /\ index'[Len(index) + j] \in VectorsFor(cs[j].text)]_vars

AppendOnlyInOrderWitness ==
    /\ op = "add_finish"
    /\ ret[Caller].kind = "returned"
    /\ Len(args[Caller].chunks) = 2
    /\ Len(metadata) = 3
    /\ index[1] # index[3]
    /\ metadata[2].text # metadata[3].text

AllZero(v) == Len(v) = D /\ \A c \in 1..Len(v) : v[c] = 0

\* C16: zero-vector substitution. When emb returns None or an empty list
\* for a chunk, add_chunks goes on: the chunk gets an all-zero row, and a
\* call all of whose other embeddings are usable returns normally with
\* exactly len(chunks) vectors and entries added, the all-zero vector at
\* the position of every failed chunk.
ZeroVectorSubstitution ==
    [][\A t \in Tasks :
         /\ (pc[t] = "add_await" /\ emb[t].state = "returned"
               /\ ~Truthy(emb[t].result) /\ args'[t].i = args[t].i + 1)
            => /\ Len(args'[t].embeddings) = args[t].i + 1
               /\ AllZero(args'[t].embeddings[args[t].i + 1])
         /\ (AddCompletes(t)
               /\ \A j \in 1..Len(args'[t].embeddings) :
                     Len(args'[t].embeddings[j]) = D)
            => /\ ret'[t].kind = "returned"
               /\ Len(index') = Len(index) + Len(args[t].chunks)
               /\ Len(metadata') = Len(metadata) + Len(args[t].chunks)
               /\ \A j \in 1..Len(args[t].chunks) :
                    AllZero(args'[t].embeddings[j])
                    => AllZero(index'[Len(index) + j])]_vars

ZeroVectorSubstitutionWitness ==
    /\ op = "add_finish"
    /\ ret[Caller].kind = "returned"
    /\ Len(args[Caller].chunks) = 2
    /\ emb[Caller].result.none
    /\ Len(index) = 2
    /\ ~AllZero(index[1])
    /\ AllZero(index[2])

\* C17: sequential embedding. An add_chunks call asks for the embedding
\* of chunk i + 1 only when the calls for the chunks up to i have
\* returned, one request at a time, and no vector or metadata entry is
\* appended before the embedding call of the last chunk has returned.
SequentialEmbedding ==
    /\ [](\A t \in Tasks :
            pc[t] = "add_await"
            => /\ Len(args[t].embeddings) = args[t].i
               /\ args[t].i < Len(args[t].chunks)
               /\ emb[t].state # "none"
               /\ emb[t].input = args[t].chunks[args[t].i + 1].text)
    /\ [][(index' # index \/ metadata' # metadata)
          => \E t \in Tasks :
               /\ AddCompletes(t)
               /\ emb[t].state = "returned"
               /\ args[t].i = Len(args[t].chunks) - 1]_vars

SequentialEmbeddingWitness ==
    /\ pc[Caller] = "add_await"
    /\ args[Caller].i = 1
    /\ emb[Caller].state = "running"
    /\ emb[Caller].requests = 2
    /\ Len(index) = 1

\* the positions of the entries whose video has the base filename V
Matching(V) == {p \in 1..Len(metadata) : PathName(metadata[p].video_path) = V}

\* the sets of k positions none of which scores below a position left out
TopSets(sc, k) ==
    {S \in SUBSET DOMAIN sc :
       /\ Cardinality(S) = k
       /\ \A p \in S : \A o \in (DOMAIN sc) \ S : sc[o] <= sc[p]}

\* a filtered search of task t that has returned, on a query vector
FilteredSearchReturned(t) ==
    /\ pc[t] = "search_done"
    /\ ret[t].kind = "returned"
    /\ HasQueryVector(t)
    /\ args[t].top_k >= 1
    /\ args[t].video_filename # ""

\* C18: a filtered search is computed over the over-fetched candidates
\* only. With the filter V, search returns the first top_k, in
\* non-increasing order of score, of those entries among the
\* min(2 * top_k, index size) best-scoring entries of the whole index whose
\* base filename is V.
FilterOverCandidates ==
    \A t \in Tasks :
      FilteredSearchReturned(t)
      => LET sc == Scores(index, NormalizeRow(emb[t].result.value))
             res == ret[t].value
             k == args[t].top_k
         IN \E S \in TopSets(sc, Min(2 * k, Len(index))) :
              LET M == S \cap Matching(args[t].video_filename)
              IN /\ Len(res) = Min(k, Cardinality(M))
                 /\ \A i \in 1..Len(res) : \A j \in i..Len(res) :
                      res[i].score >= res[j].score
                 /\ \E f \in [1..Len(res) -> M] :
                      /\ \A i, j \in 1..Len(res) : f[i] = f[j] => i = j
                      /\ \A i \in 1..Len(res) :
                           res[i] = Scored(metadata[f[i]], sc[f[i]])
                      /\ \A p \in M \ {f[i] : i \in 1..Len(res)} :
                           \A i \in 1..Len(res) : sc[p] <= res[i].score

FilterOverCandidatesWitness ==
    /\ FilteredSearchReturned(Caller)
    /\ Len(index) > 2 * args[Caller].top_k
    /\ Len(ret[Caller].value) = args[Caller].top_k
    /\ \E p \in Matching(args[Caller].video_filename) :
         \A i \in 1..Len(ret[Caller].value) :
           metadata[p].chunk_index # ret[Caller].value[i].chunk_index

\* a filtered search that returned fewer than top_k results although at
\* least top_k entries of the index belong to the video asked for
UnderFill(t) ==
    /\ FilteredSearchReturned(t)
    /\ Cardinality(Matching(args[t].video_filename)) >= args[t].top_k
    /\ Len(ret[t].value) < args[t].top_k

\* C19: under-fill is reachable. A search with the filter V can return
\* fewer than top_k results on an index that holds at least top_k entries
\* of V; it does so only when more than top_k of the 2 * top_k
\* best-scoring entries belong to other videos.
UnderFillCause ==
    \A t \in Tasks :
      UnderFill(t)
      => LET sc == Scores(index, NormalizeRow(emb[t].result.value))
         IN \E S \in TopSets(sc, 2 * args[t].top_k) :
              Cardinality(S \ Matching(args[t].video_filename)) > args[t].top_k

UnderFillWitness == UnderFill(Caller)

\* C26: chunk_index is a unique identifier. After any sequence of
\* add_chunks calls no two entries of the metadata list have the same
\* chunk_index.
ChunkIndexUnique ==
    \A i, j \in 1..Len(metadata) :
      metadata[i].chunk_index = metadata[j].chunk_index => i = j

\* C30: search is read-only. No step of a search changes the vectors,
\* the metadata list or either file; no stored entry gains a 'score' key:
\* the dictionaries returned are copies.
SearchReadOnly ==
    /\ [][\A t \in Tasks :
            (pc[t] = "search_await" \/ pc'[t] = "search_await")
            => /\ index' = index
               /\ metadata' = metadata
               /\ diskIndex' = diskIndex
               /\ diskMeta' = diskMeta]_vars
    /\ [](\A i \in 1..Len(metadata) : "score" \notin DOMAIN metadata[i])

SearchReadOnlyWitness ==
    /\ op = "search_finish"
    /\ ret[Caller].kind = "returned"
    /\ Len(ret[Caller].value) = MaxTopK
    /\ Len(metadata) = MaxEntries
    /\ \A i \in 1..Len(ret[Caller].value) : "score" \in DOMAIN ret[Caller].value[i]

\* C27: interleaving safety on one event loop. However add_chunks and
\* search coroutines on one indexer interleave at their awaits, at every
\* switch point the index holds as many vectors as metadata entries, the
\* entries of each add_chunks call form one contiguous block in the order
\* of its chunks, and a search finds a metadata entry for every vector
\* position faiss hands it.
InterleavingSafe ==
    /\ [](Len(index) = Len(metadata))
    /\ [][/\ IsPrefix(metadata, metadata')
          /\ IsPrefix(index, index')
          /\ \A t \in Tasks :
               /\ (AddCompletes(t) /\ ret'[t].kind = "returned")
                  => LET cs == args[t].chunks
                     IN /\ Len(metadata') = Len(metadata) + Len(cs)
                        /\ \A j \in 1..Len(cs) :
                             /\ metadata'[Len(metadata) + j].text = cs[j].text
                             /\ metadata'[Len(metadata) + j].start_time = cs[j].start
                             /\ metadata'[Len(metadata) + j].video_path = args[t].video_path
                             /\ index'[Len(index) + j] \in VectorsFor(cs[j].text)
               /\ (pc[t] = "search_await" /\ pc'[t] = "search_done"
                     /\ ret'[t].kind = "returned" /\ HasQueryVector(t)
                     /\ args[t].video_filename = "")
                  => Len(ret'[t].value) = Min(args[t].top_k, Len(index))]_vars

InterleavingSafeWitness ==
    /\ pc["t1"] = "add_done"
    /\ pc["t2"] = "search_done"
    /\ op = "search_finish"
    /\ Len(args["t1"].chunks) = 2
    /\ ret["t1"].kind = "returned"
    /\ Len(ret["t2"].value) = MaxTopK
    /\ Len(index) = MaxEntries

\* C22: add_chunks is all-or-nothing in memory. A call either appends all
\* len(chunks) vectors and all len(chunks) metadata entries, or, when it
\* returns early or raises before the append, changes neither the
\* vectors nor the metadata nor the two files.
AllOrNothing ==
    [][\A t \in Tasks :
         (pc[t] # "add_done" /\ pc'[t] = "add_done")
         => \/ /\ Len(index') = Len(index) + Len(args[t].chunks)
               /\ Len(metadata') = Len(metadata) + Len(args[t].chunks)
               /\ Len(args[t].chunks) > 0
            \/ /\ index' = index /\ metadata' = metadata
               /\ diskIndex' = diskIndex /\ diskMeta' = diskMeta]_vars

AllOrNothingWitness ==
    /\ op = "add_finish"
    /\ ret[Caller] = Raised
    /\ Len(args[Caller].chunks) = 2
    /\ Len(index) >= 1
    /\ Len(metadata) = Len(index)
    /\ diskIndex.ntotal = Len(index)

\* C23: partial application on persistence failure. When save_index
\* fails after the in-memory append, memory holds the new entries and the
\* files do not; a process stopping between the write of the vector file
\* and that of the metadata file leaves a vector file with more entries
\* than the metadata file, and a constructor called later loads that pair
\* without error.
PartialApplication ==
    [][/\ \A t \in Tasks :
            (AddCompletes(t) /\ op' = "save_failed")
            => /\ Len(index') = Len(index) + Len(args[t].chunks)
               /\ Len(metadata') = Len(metadata) + Len(args[t].chunks)
               /\ diskMeta' = diskMeta
               /\ (IF diskMeta'.exists THEN Len(diskMeta'.items) ELSE 0) < Len(metadata')
       /\ op' = "stopped_in_save"
          => /\ diskIndex'.exists
             /\ diskIndex'.ntotal > (IF diskMeta'.exists THEN Len(diskMeta'.items) ELSE 0)
       /\ (op' = "construct" /\ diskIndex.exists /\ diskMeta.exists
             /\ diskIndex.ntotal > Len(diskMeta.items))
          => /\ status' = "ready"
             /\ index' = ReadIndex(diskIndex)
             /\ Len(index') = diskIndex.ntotal
             /\ Len(metadata') = Len(diskMeta.items)]_vars

PartialApplicationWitness ==
    /\ op = "construct"
    /\ status = "ready"
    /\ diskMeta.exists
    /\ Len(index) > Len(metadata)
    /\ Len(metadata) >= 1

\* C12: search never raises on degenerate input. When emb returns None
\* for the query, or the index holds no entry, search returns an empty
\* list and raises nothing.
SearchNeverRaises ==
    \A t \in Tasks :
      (pc[t] = "search_done" /\ (emb[t].result.none \/ Len(index) = 0))
      => ret[t] = Returned(<<>>)

\* C14: chunk_index is a global counter. The chunk_index values increase
\* strictly along the metadata list, and the entry at position i (counted
\* from 0) has chunk_index i.
ChunkIndexIsPosition ==
    /\ \A i \in 1..Len(metadata) : metadata[i].chunk_index = i - 1
    /\ \A i \in 1..(Len(metadata) - 1) :
         metadata[i].chunk_index < metadata[i + 1].chunk_index

(***************************************************************************)
(* Properties of emb.                                                      *)
(***************************************************************************)
BoundedRetriesNow ==
    LET e == emb[Caller]
    IN /\ e.requests <= e.max_retries
       /\ (e.state = "returned" /\ e.failures = e.requests) => e.result = None
       /\ (e.state = "returned" /\ e.max_retries = 0) => (e.requests = 0 /\ e.result = None)

\* C10: bounded retries. One call of emb issues at most max_retries
\* requests and returns; when every attempt failed it returns None, never
\* a vector; with max_retries = 0 it issues no request and returns None.
BoundedRetries == []BoundedRetriesNow /\ <>(emb[Caller].state = "returned")

BoundedRetriesWitness ==
    /\ emb[Caller].state = "returned"
    /\ emb[Caller].max_retries = DefaultMaxRetries
    /\ emb[Caller].failures = DefaultMaxRetries
    /\ emb[Caller].result = None

\* the ways a request ends without an embedding in a 200 response
Failures == {"timeout", "status", "error", "malformed"}

\* C24: every kind of failed attempt is retried and the first success
\* ends the loop. A timeout, a non-200 status, a transport error and a
\* malformed 200 body each use up exactly one attempt and are followed by
\* the next attempt while attempts remain; the first 200 response with an
\* embedding is returned at once, and no request follows it.
RetryEveryFailure ==
    /\ [][/\ emb'[Caller].requests # emb[Caller].requests
             => /\ emb[Caller].state = "running"
                /\ emb[Caller].attempt < emb[Caller].max_retries
                /\ emb'[Caller].requests = emb[Caller].requests + 1
                /\ emb'[Caller].attempt = emb[Caller].attempt + 1
                /\ IF emb'[Caller].last \in Failures
                   THEN /\ emb'[Caller].state = "running"
                        /\ emb'[Caller].failures = emb[Caller].failures + 1
                        /\ emb'[Caller].result = None
                   ELSE /\ emb'[Caller].state = "returned"
                        /\ emb'[Caller].failures = emb[Caller].failures
                        /\ emb'[Caller].result
                             = Some(ResponseEmbedding(emb'[Caller].last, emb[Caller].input))
          /\ emb[Caller].state = "returned"
             => emb'[Caller].requests = emb[Caller].requests]_vars
    /\ [](emb[Caller].state = "returned"
            => \/ /\ emb[Caller].last \notin Failures
                  /\ emb[Caller].requests = emb[Caller].failures + 1
               \/ /\ emb[Caller].result = None
                  /\ emb[Caller].failures = emb[Caller].requests
                  /\ emb[Caller].requests = emb[Caller].max_retries)
    /\ \A k \in 1..MaxRetriesArg :
         (emb[Caller].state = "running" /\ emb[Caller].last \in Failures
            /\ emb[Caller].requests = k /\ k < emb[Caller].max_retries)
         ~> (emb[Caller].requests = k + 1)

RetryEveryFailureWitness ==
    /\ emb[Caller].state = "returned"
    /\ emb[Caller].last = "ok"
    /\ emb[Caller].failures = 2
    /\ emb[Caller].requests = 3

\* C11: dimension check. Whenever emb returns a vector, the vector has
\* the configured dimension D; a 200 response whose embedding has another
\* dimension is never returned to the caller.
ReturnedDimension ==
    (emb[Caller].state = "returned" /\ ~emb[Caller].result.none)
    => Len(emb[Caller].result.value) = D

(***************************************************************************)
(* Properties of split_into_chunks.                                        *)
(***************************************************************************)
\* ordered, gapless, non-overlapping: none ends before it starts, and each
\* starts where the one before ends
Gapless(spans) ==
    /\ \A i \in 1..Len(spans) : spans[i].start <= spans[i].end
    /\ \A i \in 1..(Len(spans) - 1) : spans[i + 1].start = spans[i].end

\* C5: chunking coverage. For an ordered, gapless, non-overlapping segment
\* list and chunk_duration > 0 the returned chunks are ordered and
\* gapless, and span from the first segment's start to the last segment's
\* end.
ChunkingCoverage ==
    (cpc = "done" /\ chunk_duration > 0 /\ segments # <<>> /\ Gapless(segments))
    => /\ chunks # <<>>
       /\ Gapless(chunks)
       /\ chunks[1].start = segments[1].start
       /\ chunks[Len(chunks)].end = segments[Len(segments)].end

\* C20: chunk bounds come from its segments. Every returned chunk, the
\* first one too, starts where the first of its segments starts and ends
\* where the last of its segments ends.
ChunkBoundsFromSegments ==
    (cpc = "done" /\ chunk_duration > 0)
    => \A i \in 1..Len(chunks) :
         /\ chunks[i].segments # <<>>
         /\ chunks[i].start = chunks[i].segments[1].start
         /\ chunks[i].end = chunks[i].segments[Len(chunks[i].segments)].end

\* C21: a single segment longer than chunk_duration becomes its own
\* chunk. A segment whose own span exceeds chunk_duration is the only
\* segment of the chunk that holds it, wherever it stands in the input.
LongSegmentAlone ==
    cpc = "done"
    => \A i \in 1..Len(chunks) : \A j \in 1..Len(chunks[i].segments) :
         chunks[i].segments[j].end - chunks[i].segments[j].start > chunk_duration
         => Len(chunks[i].segments) = 1

\* the texts of the segments joined by single separators
RECURSIVE JoinTexts(_)
JoinTexts(segs) ==
    IF segs = <<>> THEN <<>>
    ELSE IF Len(segs) = 1 THEN segs[1].text
    ELSE segs[1].text \o <<" ">> \o JoinTexts(Tail(segs))

\* C25: chunk text is the space-joined concatenation of its segments'
\* texts. The text of every returned chunk, the first one too, is the
\* texts of its segments joined by single spaces, with no separator
\* before or after.
ChunkTextIsJoin ==
    cpc = "done"
    => \A i \in 1..Len(chunks) : chunks[i].text = JoinTexts(chunks[i].segments)

\* the segments of the chunks, in chunk order
RECURSIVE AllSegments(_)
AllSegments(cs) ==
    IF cs = <<>> THEN <<>> ELSE Head(cs).segments \o AllSegments(Tail(cs))

\* C28: segment partition. For chunk_duration > 0 the segment lists of
\* the returned chunks, concatenated in chunk order, are the input segment
\* list: no segment is dropped, duplicated, split or reordered.
SegmentPartition ==
    (cpc = "done" /\ chunk_duration > 0) => AllSegments(chunks) = segments

\* C29: no empty chunks. Whatever chunk_duration is (0 and negative
\* values too), every returned chunk holds at least one segment and has a
\* non-empty text, and an empty segment list gives an empty chunk list.
NoEmptyChunks ==
    cpc = "done"
    => /\ \A i \in 1..Len(chunks) :
            chunks[i].segments # <<>> /\ chunks[i].text # <<>>
       /\ segments = <<>> => chunks = <<>>

\* C6: chunk duration policy. Every returned chunk other than the last
\* has a span of at least chunk_duration, unless it is a single segment
\* longer than chunk_duration.
ChunkDurationPolicy ==
    cpc = "done"
    => \A i \in 1..(Len(chunks) - 1) :
         \/ chunks[i].end - chunks[i].start >= chunk_duration
         \/ /\ Len(chunks[i].segments) = 1
            /\ chunks[i].segments[1].end - chunks[i].segments[1].start > chunk_duration

ChunkDurationPolicyWitness ==
    /\ cpc = "done"
    /\ chunk_duration > 0
    /\ Len(chunks) >= 2
    /\ chunks[1].end - chunks[1].start = chunk_duration

====
